---- MODULE Spec2Model ----
(***************************************************************************)
(* Model of src/data_collection/api_client.py: the RateLimiter and the      *)
(* request/retry loop of ClashRoyaleAPI, with the endpoint accessors.       *)
(*                                                                          *)
(* Time is counted in ticks, TicksPerSec ticks to the second.  The code     *)
(* uses a timestamp req_time only through now - req_time, so the model      *)
(* keeps every timestamp as that difference, its age: time.time() read at   *)
(* this instant has age 0, and when d ticks pass every age grows by d.      *)
(* time.sleep(s) lets s seconds pass.  The remote API is the environment:   *)
(* each GET ends in one of the outcomes the code distinguishes, after a     *)
(* latency the environment chooses.                                         *)
(***************************************************************************)
EXTENDS Integers, Sequences, FiniteSets, TLC

\* ---- bounds of the exploration ----
TicksPerSec == 2        \* clock resolution
MaxRps == 2             \* RateLimiter(max_requests_per_second) in 1..MaxRps
MaxCalls == 3           \* calls the client's caller makes
MaxGets == 4            \* GETs the calls may make in all
MaxRetries == 2         \* _make_request(endpoint, max_retries), 0..MaxRetries
MaxLatency == 1         \* ticks a GET takes, 0..MaxLatency
MaxGap == 2             \* ticks between two calls, 0..MaxGap
MaxRetryAfter == 1      \* numeric Retry-After values, 0..MaxRetryAfter
MaxTagLen == 3          \* characters of a player tag, 0..MaxTagLen

\* ---- constants of the program ----
DefaultMaxRetries == 3
DefaultRetryAfter == 60
MaintenanceWait == 300
BackoffUnit == 5

VARIABLES
    max_rps,          \* RateLimiter.max_rps
    requests,         \* RateLimiter.requests, as ages
    total_requests,   \* ClashRoyaleAPI.total_requests
    failed_requests,  \* ClashRoyaleAPI.failed_requests
    rate_limit_hits,  \* ClashRoyaleAPI.rate_limit_hits
    pc,               \* position of the one sequential caller
    op,               \* the method the caller is in
    max_retries,      \* argument of the running _make_request
    attempt,          \* loop variable of _make_request
    data,             \* what _make_request returned / raised
    result,           \* what the method called by the caller returned / raised
    calls,            \* calls started so far
    gets,             \* history: GETs issued so far
    issued,           \* history: the values appended to requests, as ages
    sent,             \* history: the returns of wait_if_needed, as ages
    outcomes,         \* history: outcome of each attempt of the running call
    before,           \* history: the counters when the running call started
    waited,           \* history: ticks slept in wait_if_needed, this attempt
    slept,            \* history: ticks slept after the GET, this attempt
    header,           \* history: Retry-After header of the last 429
    sleptAll,         \* history: ticks slept after the GETs of the running call
    appends,          \* history: appends to requests so far
    stats,            \* what get_api_stats returned since the last call, if called
    player_tag,       \* argument of get_player_info / get_player_battles
    endpoint          \* the endpoint built from player_tag

vars == <<max_rps, requests, total_requests, failed_requests,
          rate_limit_hits, pc, op, max_retries, attempt, data, result, calls,
          gets, issued, sent, outcomes, before, waited, slept, header,
          sleptAll, appends, stats, player_tag, endpoint>>

limiter == <<max_rps, requests, issued, sent>>
counters == <<total_requests, failed_requests, rate_limit_hits>>
call == <<op, max_retries, calls, before, stats, player_tag, endpoint>>

\* ---- values ----
Methods == {"_make_request", "get_top_players", "get_player_info",
            "get_player_battles", "get_cards"}

\* shapes of a JSON body that parses
Payloads == {"items_tags", "items_notag", "no_items", "empty_dict",
             "list", "empty_list", "number"}

Headers == {[kind |-> "absent", val |-> 0], [kind |-> "text", val |-> 0]}
           \cup {[kind |-> "num", val |-> d] : d \in 0..MaxRetryAfter}

NoValue == [kind |-> "none", val |-> "none"]
Returned(v) == [kind |-> "return", val |-> v]
Raised(e) == [kind |-> "raise", val |-> e]
NoHeader == [kind |-> "none", val |-> 0]

Seconds(s) == s * TicksPerSec

\* ---- the passing of time ----
Min(a, b) == IF a < b THEN a ELSE b

\* the list after d ticks.  The code treats every entry one second old or
\* older alike (it is dropped at the next pruning), so such an age is kept
\* as one second
Aged(reqs, d) == [i \in DOMAIN reqs |-> Min(reqs[i] + d, Seconds(1))]

\* a history after d ticks.  wait_if_needed sleeps less than a second, so an
\* entry two seconds old shares no one-second window with any later entry
\* and is forgotten
Past(hist, d) ==
    SelectSeq([i \in DOMAIN hist |-> hist[i] + d],
              LAMBDA age : age < Seconds(2))

\* d ticks pass
Elapse(d) ==
    /\ requests' = Aged(requests, d)
    /\ issued' = Past(issued, d)
    /\ sent' = Past(sent, d)

\* ---- RateLimiter ----
\* [req_time for req_time in self.requests if now - req_time < 1]
Prune(reqs) == SelectSeq(reqs, LAMBDA age : age < Seconds(1))

\* 1 - (now - self.requests[0])
SleepTime(reqs) == Seconds(1) - reqs[1]

\* the seconds wait_if_needed sleeps, given the pruned list
Slept(reqs, m) ==
    IF Len(reqs) >= m
    THEN (IF SleepTime(reqs) > 0 THEN SleepTime(reqs) ELSE 0)
    ELSE 0

\* ---- ClashRoyaleAPI ----
Init ==
    /\ max_rps \in 1..MaxRps
    /\ requests = <<>>
    /\ total_requests = 0
    /\ failed_requests = 0
    /\ rate_limit_hits = 0
    /\ pc = "idle"
    /\ op = "none"
    /\ max_retries = 0
    /\ attempt = 0
    /\ data = NoValue
    /\ result = NoValue
    /\ calls = 0
    /\ gets = 0
    /\ issued = <<>>
    /\ sent = <<>>
    /\ outcomes = <<>>
    /\ before = [total |-> 0, failed |-> 0, hits |-> 0]
    /\ waited = 0
    /\ slept = 0
    /\ header = NoHeader
    /\ sleptAll = 0
    /\ appends = 0
    /\ stats = <<>>
    /\ player_tag = <<>>
    /\ endpoint = <<>>

\* the caller lets some time pass and enters a method; every accessor calls
\* _make_request(endpoint) with the default max_retries, _make_request itself
\* takes any max_retries
Call ==
    /\ pc = "idle"
    /\ calls < MaxCalls
    /\ \E d \in 0..MaxGap : Elapse(d)
    /\ \E m \in Methods, n \in 0..MaxRetries :
          /\ op' = m
          /\ max_retries' = IF m = "_make_request" THEN n
                            ELSE DefaultMaxRetries
    /\ gets + max_retries' <= MaxGets
    /\ calls' = calls + 1
    /\ attempt' = 0
    /\ data' = NoValue
    /\ result' = NoValue
    /\ outcomes' = <<>>
    /\ before' = [total |-> total_requests, failed |-> failed_requests,
                  hits |-> rate_limit_hits]
    /\ waited' = 0
    /\ slept' = 0
    /\ header' = NoHeader
    /\ sleptAll' = 0
    /\ stats' = <<>>
    /\ pc' = "loop"
    /\ UNCHANGED <<max_rps, counters, gets, appends, player_tag, endpoint>>

\* variant: the timestamp is appended only when the call did not sleep
WaitIfNeededElse ==
    /\ pc = "loop"
    /\ attempt < max_retries
    /\ LET kept == Prune(requests)
           s == Slept(kept, max_rps)
       IN /\ requests' = IF s = 0 THEN Append(kept, 0) ELSE Aged(kept, s)
          /\ issued' = IF s = 0 THEN Append(issued, 0) ELSE Past(issued, s)
          /\ sent' = Append(Past(sent, s), 0)
          /\ waited' = s
          /\ appends' = IF s = 0 THEN appends + 1 ELSE appends
    /\ slept' = 0
    /\ pc' = "get"
    /\ UNCHANGED <<max_rps, counters, call, attempt, data, result, gets,
                   outcomes, header, sleptAll>>

\* self.rate_limiter.wait_if_needed() at the head of an attempt: prune, sleep
\* if the list is full, append the value of now read before the sleep
WaitIfNeeded ==
    /\ pc = "loop"
    /\ attempt < max_retries
    /\ LET kept == Prune(requests)
           s == Slept(kept, max_rps)
       IN /\ requests' = Aged(Append(kept, 0), s)
          /\ issued' = Past(Append(issued, 0), s)
          /\ sent' = Append(Past(sent, s), 0)
          /\ waited' = s
    /\ appends' = appends + 1
    /\ slept' = 0
    /\ pc' = "get"
    /\ UNCHANGED <<max_rps, counters, call, attempt, data, result, gets,
                   outcomes, header, sleptAll>>

\* ---- one attempt: the GET and the branch taken on its outcome ----

\* variant: the default of the header lookup is lost
RetryAfterNoDefault(h) == h.val

\* int(response.headers.get('Retry-After', 60)), for a header int() accepts
RetryAfter(h) == IF h.kind = "absent" THEN DefaultRetryAfter ELSE h.val

\* variant: the same delay at every attempt
BackoffFlat(k) == BackoffUnit

\* 5 * (attempt + 1)
Backoff(k) == BackoffUnit * (k + 1)

\* the bookkeeping shared by every branch: the GET took lat ticks and the
\* branch then slept sl ticks
Attempted(o, lat, sl) ==
    /\ gets' = gets + 1
    /\ outcomes' = Append(outcomes, o)
    /\ slept' = sl
    /\ sleptAll' = sleptAll + sl
    /\ Elapse(lat + sl)
    /\ UNCHANGED appends

\* variant: a pause after every response, success included
Get200Paused ==
    /\ pc = "get"
    /\ \E lat \in 0..MaxLatency, p \in Payloads :
          /\ Attempted("200", lat, Seconds(1))
          /\ data' = Returned(p)
    /\ total_requests' = total_requests + 1
    /\ pc' = "ret"
    /\ UNCHANGED <<max_rps, failed_requests, rate_limit_hits, call, attempt,
                   result, waited, header>>

\* response.status_code == 200 and response.json() parses
Get200 ==
    /\ pc = "get"
    /\ \E lat \in 0..MaxLatency, p \in Payloads :
          /\ Attempted("200", lat, 0)
          /\ data' = Returned(p)
    /\ total_requests' = total_requests + 1
    /\ pc' = "ret"
    /\ UNCHANGED <<max_rps, failed_requests, rate_limit_hits, call, attempt,
                   result, waited, header>>

\* response.status_code == 429, Retry-After absent or a number
Get429 ==
    /\ pc = "get"
    /\ \E lat \in 0..MaxLatency, h \in Headers :
          /\ h.kind # "text"
          /\ header' = h
          /\ Attempted("429", lat, Seconds(RetryAfter(h)))
    /\ total_requests' = total_requests + 1
    /\ rate_limit_hits' = rate_limit_hits + 1
    /\ attempt' = attempt + 1
    /\ pc' = "loop"
    /\ UNCHANGED <<max_rps, failed_requests, call, data, result, waited>>

\* response.status_code == 429, Retry-After is not a number (an HTTP-date):
\* int() raises ValueError, which no except clause of the loop catches
Get429Text ==
    /\ pc = "get"
    /\ \E lat \in 0..MaxLatency, h \in Headers :
          /\ h.kind = "text"
          /\ header' = h
          /\ Attempted("429", lat, 0)
    /\ total_requests' = total_requests + 1
    /\ rate_limit_hits' = rate_limit_hits + 1
    /\ data' = Raised("ValueError")
    /\ pc' = "ret"
    /\ UNCHANGED <<max_rps, failed_requests, call, attempt, result, waited>>

\* variant: 404 is treated like an unclassified status
Get404Retried ==
    /\ pc = "get"
    /\ \E lat \in 0..MaxLatency : Attempted("404", lat, 0)
    /\ total_requests' = total_requests + 1
    /\ failed_requests' = failed_requests + 1
    /\ attempt' = attempt + 1
    /\ pc' = "loop"
    /\ UNCHANGED <<max_rps, rate_limit_hits, call, data, result, waited,
                   header>>

\* response.status_code == 404
Get404 ==
    /\ pc = "get"
    /\ \E lat \in 0..MaxLatency : Attempted("404", lat, 0)
    /\ total_requests' = total_requests + 1
    /\ data' = Returned("None")
    /\ pc' = "ret"
    /\ UNCHANGED <<max_rps, failed_requests, rate_limit_hits, call, attempt,
                   result, waited, header>>

\* variant: no maintenance wait when no attempt is left
Get503LastSkipped ==
    /\ pc = "get"
    /\ \E lat \in 0..MaxLatency :
          Attempted("503", lat, IF attempt + 1 < max_retries
                                THEN Seconds(MaintenanceWait) ELSE 0)
    /\ total_requests' = total_requests + 1
    /\ attempt' = attempt + 1
    /\ pc' = "loop"
    /\ UNCHANGED <<max_rps, failed_requests, rate_limit_hits, call, data,
                   result, waited, header>>

\* response.status_code == 503
Get503 ==
    /\ pc = "get"
    /\ \E lat \in 0..MaxLatency :
          Attempted("503", lat, Seconds(MaintenanceWait))
    /\ total_requests' = total_requests + 1
    /\ attempt' = attempt + 1
    /\ pc' = "loop"
    /\ UNCHANGED <<max_rps, failed_requests, rate_limit_hits, call, data,
                   result, waited, header>>

\* variant: an unclassified status backs off like a transport error
GetOtherBackoff ==
    /\ pc = "get"
    /\ \E lat \in 0..MaxLatency :
          Attempted("other", lat, Seconds(BackoffUnit * (attempt + 1)))
    /\ total_requests' = total_requests + 1
    /\ failed_requests' = failed_requests + 1
    /\ attempt' = attempt + 1
    /\ pc' = "loop"
    /\ UNCHANGED <<max_rps, rate_limit_hits, call, data, result, waited,
                   header>>

\* any other status code
GetOther ==
    /\ pc = "get"
    /\ \E lat \in 0..MaxLatency : Attempted("other", lat, 0)
    /\ total_requests' = total_requests + 1
    /\ failed_requests' = failed_requests + 1
    /\ attempt' = attempt + 1
    /\ pc' = "loop"
    /\ UNCHANGED <<max_rps, rate_limit_hits, call, data, result, waited,
                   header>>

\* variant: a timeout is also counted as a failed request
GetTimeoutCounted ==
    /\ pc = "get"
    /\ \E lat \in 0..MaxLatency :
          Attempted("timeout", lat, Seconds(BackoffUnit * (attempt + 1)))
    /\ failed_requests' = failed_requests + 1
    /\ attempt' = attempt + 1
    /\ pc' = "loop"
    /\ UNCHANGED <<max_rps, total_requests, rate_limit_hits, call, data,
                   result, waited, header>>

\* session.get raises requests.exceptions.Timeout: line 50 is not reached
GetTimeout ==
    /\ pc = "get"
    /\ \E lat \in 0..MaxLatency :
          Attempted("timeout", lat, Seconds(Backoff(attempt)))
    /\ attempt' = attempt + 1
    /\ pc' = "loop"
    /\ UNCHANGED <<max_rps, counters, call, data, result, waited, header>>

\* session.get raises another requests.exceptions.RequestException
GetError ==
    /\ pc = "get"
    /\ \E lat \in 0..MaxLatency :
          Attempted("error", lat, Seconds(Backoff(attempt)))
    /\ attempt' = attempt + 1
    /\ pc' = "loop"
    /\ UNCHANGED <<max_rps, counters, call, data, result, waited, header>>

\* status 200 whose body is not JSON: response.json() raises.  With a
\* requests release whose JSONDecodeError derives from RequestException
\* (2.27 and later) the second except clause catches it ...
Get200Unparsable ==
    /\ pc = "get"
    /\ \E lat \in 0..MaxLatency :
          Attempted("unparsable", lat, Seconds(Backoff(attempt)))
    /\ total_requests' = total_requests + 1
    /\ attempt' = attempt + 1
    /\ pc' = "loop"
    /\ UNCHANGED <<max_rps, failed_requests, rate_limit_hits, call, data,
                   result, waited, header>>

\* ... and with an earlier release it is a plain ValueError and leaves
\* _make_request
Get200UnparsableRaise ==
    /\ pc = "get"
    /\ \E lat \in 0..MaxLatency : Attempted("unparsable", lat, 0)
    /\ total_requests' = total_requests + 1
    /\ data' = Raised("ValueError")
    /\ pc' = "ret"
    /\ UNCHANGED <<max_rps, failed_requests, rate_limit_hits, call, attempt,
                   result, waited, header>>

\* variant: on exhaustion every attempt of the call is counted as failed
ExhaustedPerAttempt ==
    /\ pc = "loop"
    /\ attempt >= max_retries
    /\ failed_requests' = failed_requests + max_retries
    /\ data' = Returned("None")
    /\ pc' = "ret"
    /\ UNCHANGED <<limiter, total_requests, rate_limit_hits, call,
                   attempt, result, gets, outcomes, waited, slept, header,
                   sleptAll, appends>>

\* range(max_retries) is used up: lines 85-87
Exhausted ==
    /\ pc = "loop"
    /\ attempt >= max_retries
    /\ failed_requests' = failed_requests + 1
    /\ data' = Returned("None")
    /\ pc' = "ret"
    /\ UNCHANGED <<limiter, total_requests, rate_limit_hits, call,
                   attempt, result, gets, outcomes, waited, slept, header,
                   sleptAll, appends>>

\* ---- the endpoint accessors: what each makes of _make_request's value ----
Falsy(p) == p \in {"None", "empty_dict", "empty_list"}

\* 'items' in data
HasItems(p) == p \in {"items_tags", "items_notag"}

\* 'items' not in data raises TypeError when data is not a container
Uncontainable(p) == p = "number"

get_top_players(p) ==
    IF Falsy(p) THEN Returned("[]")
    ELSE IF Uncontainable(p) THEN Raised("TypeError")
    ELSE IF ~HasItems(p) THEN Returned("[]")
    ELSE IF p = "items_tags" THEN Returned("tags")
    ELSE Raised("KeyError")

get_player_info(p) == Returned(p)

\* variant: the isinstance check of line 130 is missing
get_player_battles_unchecked(p) ==
    IF Falsy(p) THEN Returned("[]")
    ELSE Returned(p)

get_player_battles(p) ==
    IF Falsy(p) THEN Returned("[]")
    ELSE IF p = "list" THEN Returned(p)
    ELSE Returned("[]")

get_cards(p) ==
    IF Falsy(p) THEN Returned("[]")
    ELSE IF Uncontainable(p) THEN Raised("TypeError")
    ELSE IF ~HasItems(p) THEN Returned("[]")
    ELSE Returned("items")

Shaped(m, p) ==
    CASE m = "get_top_players" -> get_top_players(p)
      [] m = "get_player_info" -> get_player_info(p)
      [] m = "get_player_battles" -> get_player_battles(p)
      [] m = "get_cards" -> get_cards(p)
      [] OTHER -> Returned(p)

\* _make_request has returned or raised; the method finishes and the caller
\* has its result
Finish ==
    /\ pc = "ret"
    /\ result' = IF data.kind = "raise" THEN data ELSE Shaped(op, data.val)
    /\ pc' = "idle"
    /\ UNCHANGED <<limiter, counters, call, attempt, data, gets, outcomes,
                   waited, slept, header, sleptAll, appends>>

\* ---- get_api_stats ----
Max(a, b) == IF a > b THEN a ELSE b

\* variant: the division is by total_requests itself
get_api_stats_unguarded(total, failed, hits) ==
    [total_requests |-> total,
     failed_requests |-> failed,
     rate_limit_hits |-> hits,
     success_rate |-> [num |-> (total - failed) * 100, den |-> total]]

\* the dictionary of lines 144-149; the float success_rate is kept as the
\* exact fraction num / den, (total - failed) / max(total, 1) * 100
get_api_stats(total, failed, hits) ==
    [total_requests |-> total,
     failed_requests |-> failed,
     rate_limit_hits |-> hits,
     success_rate |-> [num |-> (total - failed) * 100,
                       den |-> Max(total, 1)]]

\* the caller asks for the statistics between two calls
GetApiStats ==
    /\ pc = "idle"
    /\ stats' = <<get_api_stats(total_requests, failed_requests,
                                rate_limit_hits)>>
    /\ UNCHANGED <<limiter, counters, pc, op, max_retries, calls, before,
                   player_tag, endpoint, attempt, data, result, gets,
                   outcomes, waited, slept, header, sleptAll, appends>>

Next ==
    \/ Call
    \/ WaitIfNeeded
    \/ Get200
    \/ Get429
    \/ Get429Text
    \/ Get404
    \/ Get503
    \/ GetOther
    \/ GetTimeout
    \/ GetError
    \/ Get200Unparsable
    \/ Get200UnparsableRaise
    \/ Exhausted
    \/ Finish
    \/ GetApiStats

Spec == Init /\ [][Next]_vars

(***************************************************************************)
(* The endpoint of the player accessors.  The endpoint does not influence   *)
(* the request loop, which Spec explores; SpecTag explores its construction *)
(* from every tag over a small alphabet.  A string is a sequence of         *)
(* characters.                                                              *)
(***************************************************************************)
\* the marker, a letter, and two characters quote(..., safe='') must encode
TagChars == {"#", "A", "/", "%"}

Tags == UNION {[1..n -> TagChars] : n \in 0..MaxTagLen}

\* variant: the tag is used as given
CleanTagKept(tag) == tag

\* player_tag.replace('#', '')
CleanTag(tag) == SelectSeq(tag, LAMBDA c : c # "#")

\* f"#{clean_tag}"
Prefixed(tag) == <<"#">> \o CleanTag(tag)

\* urllib.parse.quote with safe='' on one character
QuoteChar(c) ==
    CASE c = "#" -> <<"%", "2", "3">>
      [] c = "/" -> <<"%", "2", "F">>
      [] c = "%" -> <<"%", "2", "5">>
      [] OTHER -> <<c>>

RECURSIVE Quote(_)
Quote(str) ==
    IF str = <<>> THEN <<>>
    ELSE QuoteChar(Head(str)) \o Quote(Tail(str))

\* encoded_tag
EncodedTag(tag) == Quote(Prefixed(tag))

InitTag ==
    /\ max_rps \in 1..MaxRps
    /\ requests = <<>>
    /\ total_requests = 0
    /\ failed_requests = 0
    /\ rate_limit_hits = 0
    /\ pc = "idle"
    /\ op = "none"
    /\ max_retries = 0
    /\ attempt = 0
    /\ data = NoValue
    /\ result = NoValue
    /\ calls = 0
    /\ gets = 0
    /\ issued = <<>>
    /\ sent = <<>>
    /\ outcomes = <<>>
    /\ before = [total |-> 0, failed |-> 0, hits |-> 0]
    /\ waited = 0
    /\ slept = 0
    /\ header = NoHeader
    /\ sleptAll = 0
    /\ appends = 0
    /\ stats = <<>>
    /\ player_tag \in Tags
    /\ endpoint = <<>>

\* get_player_info(player_tag) up to line 112
PlayerInfoEndpoint ==
    /\ pc = "idle"
    /\ op = "none"
    /\ op' = "get_player_info"
    /\ endpoint' = <<"/players/">> \o EncodedTag(player_tag)
    /\ UNCHANGED <<limiter, counters, pc, max_retries, calls, before, stats,
                   player_tag, attempt, data, result, gets, outcomes, waited,
                   slept, header, sleptAll, appends>>

\* get_player_battles(player_tag) up to line 123
PlayerBattlesEndpoint ==
    /\ pc = "idle"
    /\ op = "none"
    /\ op' = "get_player_battles"
    /\ endpoint' = <<"/players/">> \o EncodedTag(player_tag)
                       \o <<"/battlelog">>
    /\ UNCHANGED <<limiter, counters, pc, max_retries, calls, before, stats,
                   player_tag, attempt, data, result, gets, outcomes, waited,
                   slept, header, sleptAll, appends>>

NextTag == PlayerInfoEndpoint \/ PlayerBattlesEndpoint

SpecTag == InitTag /\ [][NextTag]_vars

(***************************************************************************)
(* Properties                                                              *)
(***************************************************************************)
Last(seq) == seq[Len(seq)]

\* the GET of an attempt ends in outcome o in this step
Ends(o) ==
    /\ pc = "get"
    /\ Len(outcomes') = Len(outcomes) + 1
    /\ Last(outcomes') = o

\* the entries of a history inside the one-second window that opens at the
\* entry of age a
InWindow(hist, a) == {i \in DOMAIN hist : hist[i] <= a /\ a - hist[i] < Seconds(1)}

WithinLimit(hist) ==
    \A j \in DOMAIN hist : Cardinality(InWindow(hist, hist[j])) <= max_rps

\* C1: no one-second window contains more than max_rps of the timestamps
\* wait_if_needed has appended to its list.
C1_RecordedWithinLimit == WithinLimit(issued)

\* C2: no one-second window contains more than max_rps of the moments at
\* which wait_if_needed returned, i.e. at which a GET was sent.
C2_SentWithinLimit == WithinLimit(sent)

AllTimeouts == \A i \in DOMAIN outcomes : outcomes[i] = "timeout"

\* C3: a _make_request call whose max_retries attempts all ended in a
\* timeout returns None and has raised failed_requests by exactly 1.
C3_TimeoutsCountOnce ==
    (pc = "ret" /\ Len(outcomes) = max_retries /\ AllTimeouts)
        => /\ data = Returned("None")
           /\ failed_requests = before.failed + 1

C3_Witness ==
    /\ pc = "ret"
    /\ max_retries >= 2
    /\ Len(outcomes) = max_retries
    /\ AllTimeouts

\* C4: when _make_request returns, total_requests has grown by exactly the
\* number of GET attempts the call made, whatever their outcomes.
C4_TotalCountsEveryAttempt ==
    pc = "ret" => total_requests = before.total + Len(outcomes)

\* C5: an attempt that receives 429 with Retry-After d (60 when absent)
\* raises rate_limit_hits by exactly 1, leaves failed_requests alone and
\* sleeps at least d seconds before the loop goes on to any next attempt,
\* at every position in the attempt budget.
C5_RateLimited ==
    [][(Ends("429") /\ header'.kind \in {"absent", "num"})
          => /\ rate_limit_hits' = rate_limit_hits + 1
             /\ failed_requests' = failed_requests
             /\ slept' >= Seconds(IF header'.kind = "absent" THEN 60
                                  ELSE header'.val)
             /\ pc' = "loop"]_vars

C5_Witness ==
    /\ pc = "loop"
    /\ max_retries >= 2
    /\ attempt = max_retries
    /\ outcomes # <<>>
    /\ Last(outcomes) = "429"
    /\ header.kind = "absent"

\* C6: an attempt that receives 404 makes the call return None at once, with
\* no sleep, changing no counter but total_requests; no attempt follows a
\* 404, and a call whose first attempt is answered 404 makes one attempt.
C6_NotFound ==
    [][/\ Ends("404")
          => /\ data' = Returned("None")
             /\ pc' = "ret"
             /\ slept' = 0
             /\ total_requests' = total_requests + 1
             /\ failed_requests' = failed_requests
             /\ rate_limit_hits' = rate_limit_hits
       /\ \A i \in DOMAIN outcomes' :
             outcomes'[i] = "404" => i = Len(outcomes')
       /\ (outcomes' # <<>> /\ outcomes'[1] = "404") => Len(outcomes') = 1]_vars

C6_Witness ==
    /\ pc = "ret"
    /\ max_retries >= 2
    /\ outcomes = <<"404">>
    /\ total_requests = before.total + 1

C8_NeverRaises == data.kind # "raise" /\ result.kind # "raise"

\* how the running _make_request ended
Ending ==
    IF data.kind = "raise" THEN "RAISED"
    ELSE IF outcomes # <<>> /\ Last(outcomes) = "200" THEN "SUCCESS"
    ELSE IF outcomes # <<>> /\ Last(outcomes) = "404" THEN "NOT_FOUND"
    ELSE "EXHAUSTED"

\* C9: every _make_request ends as SUCCESS, NOT_FOUND or EXHAUSTED after at
\* most max_retries GETs; it ends EXHAUSTED, with None, only when all
\* max_retries attempts have been made.
C9_EndsInOneOfThree ==
    pc = "ret"
        => /\ Ending \in {"SUCCESS", "NOT_FOUND", "EXHAUSTED"}
           /\ Len(outcomes) <= max_retries
           /\ Ending = "EXHAUSTED"
                 => (data = Returned("None") /\ Len(outcomes) = max_retries)

\* C10: every step leaves each counter unchanged or raises it by 1.
C10_CountersStepByOne ==
    [][/\ total_requests' \in {total_requests, total_requests + 1}
       /\ failed_requests' \in {failed_requests, failed_requests + 1}
       /\ rate_limit_hits' \in {rate_limit_hits, rate_limit_hits + 1}]_vars

C10_Witness ==
    /\ pc = "ret"
    /\ max_retries >= 2
    /\ Len(outcomes) = max_retries
    /\ \A i \in DOMAIN outcomes : outcomes[i] = "other"
    /\ failed_requests = before.failed + max_retries + 1
    /\ rate_limit_hits >= 1

\* C11: get_api_stats reports the three counters as they are and changes
\* none of them; its success_rate is (total_requests - failed_requests) /
\* total_requests * 100 when total_requests > 0, and with total_requests = 0
\* the division is by 1, not by zero.
C11_StatsWellDefined ==
    [][(stats' # stats /\ stats' # <<>>)
          => /\ UNCHANGED counters
             /\ stats'[1].total_requests = total_requests
             /\ stats'[1].failed_requests = failed_requests
             /\ stats'[1].rate_limit_hits = rate_limit_hits
             /\ stats'[1].success_rate.den # 0
             /\ total_requests > 0
                   => stats'[1].success_rate.num * total_requests
                         = (total_requests - failed_requests) * 100
                              * stats'[1].success_rate.den
             /\ total_requests = 0 => stats'[1].success_rate.den = 1]_vars

C11_Witness ==
    /\ stats # <<>>
    /\ stats[1].total_requests = 0
    /\ stats[1].failed_requests > 0
    /\ stats[1].success_rate.den = 1

\* C12: get_player_battles returns the payload only when its one
\* _make_request returned a non-empty sequence; for a mapping, another
\* non-sequence, an empty payload or None it returns an empty sequence and
\* raises nothing.
C12_BattlesOnlySequences ==
    (pc = "idle" /\ op = "get_player_battles" /\ data.kind = "return")
        => /\ result.kind = "return"
           /\ data.val = "list" => result.val = "list"
           /\ data.val # "list" => result.val = "[]"
           /\ Len(outcomes) <= DefaultMaxRetries

C12_Witness ==
    /\ pc = "idle"
    /\ op = "get_player_battles"
    /\ data = Returned("no_items")
    /\ result = Returned("[]")

\* the tag without its leading marker, if it has one
Unmarked(tag) ==
    IF tag # <<>> /\ Head(tag) = "#" THEN Tail(tag) ELSE tag

\* the path segment that stands for the tag in the endpoint
PathSegment ==
    IF op = "get_player_battles" THEN SubSeq(endpoint, 2, Len(endpoint) - 1)
    ELSE SubSeq(endpoint, 2, Len(endpoint))

AllOther == \A i \in DOMAIN outcomes : outcomes[i] = "other"

\* C14: a _make_request whose max_retries attempts all receive an
\* unclassified status raises failed_requests by max_retries + 1 and
\* total_requests by max_retries, and sleeps nowhere after a GET.
C14_UnclassifiedCountTwice ==
    (pc = "ret" /\ Len(outcomes) = max_retries /\ AllOther)
        => /\ failed_requests = before.failed + max_retries + 1
           /\ total_requests = before.total + max_retries
           /\ sleptAll = 0
           /\ data = Returned("None")

C14_Witness ==
    /\ pc = "ret"
    /\ max_retries = DefaultMaxRetries
    /\ Len(outcomes) = max_retries
    /\ AllOther
    /\ sleptAll = 0

\* C15: in every reachable state failed_requests <= total_requests (so the
\* success rate lies between 0 and 100).
C15_FailedWithinTotal == failed_requests <= total_requests

\* C16: when wait_if_needed returns, every timestamp in its list is less
\* than one second older than the clock.
C16_ListYoungAtReturn ==
    pc = "get" => \A i \in DOMAIN requests : requests[i] < Seconds(1)

\* C17: an attempt that ends in a timeout or a transport error sleeps
\* 5 * (k + 1) seconds, k its zero-based index among all attempts of the
\* call; a call whose n attempts all time out sleeps 5 * n * (n + 1) / 2
\* seconds after its GETs in total.
C17_LinearBackoff ==
    [][/\ (Ends("timeout") \/ Ends("error"))
          => slept' = Seconds(5 * (Len(outcomes) + 1))
       /\ (pc' = "ret" /\ Len(outcomes') = max_retries'
             /\ \A i \in DOMAIN outcomes' : outcomes'[i] = "timeout")
          => sleptAll' = Seconds((5 * max_retries' * (max_retries' + 1))
                                    \div 2)]_vars

C17_Witness ==
    /\ pc = "loop"
    /\ outcomes = <<"other", "timeout">>
    /\ slept = Seconds(10)

\* C18: every GET is preceded by its own completed wait_if_needed: the
\* timestamps appended over the client's lifetime are as many as the GETs
\* issued, one more while a GET is outstanding.
C18_OneWaitPerGet ==
    appends = gets + (IF pc = "get" THEN 1 ELSE 0)

C18_Witness ==
    /\ pc = "loop"
    /\ gets >= 3
    /\ appends = gets
    /\ outcomes # <<>>
    /\ Last(outcomes) = "timeout"
    /\ waited > 0

\* C19: when the last attempt of the budget ends in 429, 503, a timeout or
\* a transport error, the full retry delay of that attempt has been slept
\* when _make_request returns None.
C19_LastDelayServed ==
    (/\ pc = "ret"
     /\ data.kind = "return"
     /\ max_retries > 0
     /\ Len(outcomes) = max_retries
     /\ Last(outcomes) \in {"429", "503", "timeout", "error"})
        => /\ data = Returned("None")
           /\ slept = Seconds(CASE Last(outcomes) = "429" ->
                                     (IF header.kind = "absent" THEN 60
                                      ELSE header.val)
                                [] Last(outcomes) = "503" -> 300
                                [] OTHER -> 5 * max_retries)

C19_Witness ==
    /\ pc = "ret"
    /\ max_retries >= 2
    /\ Len(outcomes) = max_retries
    /\ Last(outcomes) = "503"
    /\ slept = Seconds(300)
    /\ data = Returned("None")
====
